---- MODULE Spec2Model ----
(***************************************************************************)
(* Model of the request-execution core of amazon-sp-api-mcp:               *)
(*   client/rate_limiter.py  RateLimiter      (token buckets)              *)
(*   client/error_handler.py SPAPIErrorHandler (retry / backoff)           *)
(*   auth/lwa_auth.py        LWATokenManager  (bearer token cache)         *)
(*   client/http_client.py   SPAPIClient      (the request pipeline)       *)
(*                                                                         *)
(* Time is counted in ticks of 30 seconds.  Bucket tokens are floats in    *)
(* the code; here they are fixed-point numbers counted in units of         *)
(* 1/TokenScale token.  All coroutines run on one asyncio event loop: a    *)
(* task runs without interleaving until it awaits asyncio.sleep or ends,   *)
(* which the variable running records.                                     *)
(***************************************************************************)
EXTENDS Integers, Sequences, FiniteSets, TLC

VARIABLES
    now,                \* the clock, in ticks
    running,            \* the task the event loop is running, or NoTask
    buckets,            \* RateLimiter.buckets
    last_request_times, \* RateLimiter.last_request_times
    pc,                 \* per task: where it is
    op,                 \* per task: the entry point it was started on
    endpoint,           \* per task: the endpoint argument of acquire
    wake,               \* per task: the clock reading its sleep ends at
    access_token,       \* LWATokenManager.access_token
    token_expires_at,   \* LWATokenManager.token_expires_at
    credentials,        \* AWSAuthManager._credentials
    aws_role_arn,       \* whether config.aws_role_arn is set
    sts_calls,          \* history: the sts assume_role calls made, in order
    identities,         \* history: the Credentials instances created so far
    aws_call,           \* history: the last call into AWSAuthManager
    args,               \* per task: the arguments of SPAPIClient.request
    aws_request,        \* per task: the outbound request being built, then signed
    max_retries,        \* SPAPIErrorHandler.max_retries (config.retry_attempts)
    attempt,            \* per task: the loop variable of execute_with_retry
    result,             \* per task: how its call ended (returned value or raised error)
    granted,            \* history: acquisitions granted per bucket
    bucket_t0,          \* history: the clock reading each bucket was created at
    trace,              \* history, per task: the outcome of each attempt, in order
    waits,              \* history, per task: the backoff sleeps it has started
    wire,               \* history, per task: what the transport did at each attempt
    exchanges,          \* history: refresh_token exchanges sent to the token endpoint
    issued,             \* history: per exchange, the expiry of the token it issued
    lwa_call,           \* history: the last call into LWATokenManager
    status_report,      \* history: what the last get_status() returned
    formatted,          \* history, per task: what format_error made of its error
    backoff_call        \* history: the last call of _calculate_backoff on its own

rlvars == <<buckets, last_request_times, granted, bucket_t0, status_report>>
taskvars == <<pc, op, endpoint, wake>>
retryvars == <<attempt, result, trace, waits, wire>>
awsvars == <<aws_role_arn, sts_calls, identities, aws_call>>
pipevars == <<credentials, args, aws_request, aws_role_arn, sts_calls, identities, aws_call>>
lwavars == <<access_token, token_expires_at, exchanges, issued, lwa_call>>
callvars == <<formatted, backoff_call>>
vars == <<now, running, buckets, last_request_times, pc, op, endpoint, wake,
          access_token, token_expires_at, max_retries, attempt, result,
          granted, bucket_t0, trace, waits, exchanges, issued, lwa_call,
          credentials, args, aws_request, wire, aws_role_arn, sts_calls, identities,
          aws_call, status_report, formatted, backoff_call>>

----------------------------------------------------------------------------
(* Bounds of the model *)

MaxTime == 4
OrdersBurst == 2
InventoryBurst == 1
MaxRetries == 2
MaxExchanges == 2
MaxAssumes == 3
FairMaxTime == 10
MaxBackoffRetries == 9

(* Program constants *)

TokenScale == 1000
DefaultBurst == 10
DefaultRate == 30000
Buffer == 1
BackoffCap == 60
BufferTicks == 10
DefaultExpiresIn == 120
HalfSecondsPerTick == 60

Procs == {"t1", "t2", "t3"}
NoTask == "none"
Endpoints == {"orders", "inventory", "shipping", "messaging"}

Min(a, b) == IF a <= b THEN a ELSE b
CeilDiv(a, b) == (a + b - 1) \div b

----------------------------------------------------------------------------
(* config.RATE_LIMITS, in units per tick: orders 0.0167/s is 0.501 token   *)
(* per tick, inventory 2.0/s is 60 tokens per tick.  The bursts are scaled *)
(* down to the bounds above.                                               *)
RATE_LIMITS ==
    [orders    |-> [rate |-> 501,   burst |-> OrdersBurst],
     inventory |-> [rate |-> 60000, burst |-> InventoryBurst]]

NewBucket(burst, rate, t) ==
    [tokens |-> burst * TokenScale, max_tokens |-> burst * TokenScale,
     refill_rate |-> rate, last_refill |-> t]

(* RateLimiter.__init__ *)
InitBuckets ==
    [e \in DOMAIN RATE_LIMITS |->
        NewBucket(RATE_LIMITS[e].burst, RATE_LIMITS[e].rate, 0)]

(* acquire, lines 34-46: the bucket an endpoint name resolves to *)
BucketName_Shared(e) == "orders"

BucketName(e) == IF e \in DOMAIN buckets THEN e ELSE "default"

WithDefault_Fresh(bs, e, t) ==
    IF e \in DOMAIN bs THEN bs
    ELSE [x \in DOMAIN bs \cup {"default"} |->
            IF x = "default" THEN NewBucket(DefaultBurst, DefaultRate, t) ELSE bs[x]]

WithDefault(bs, e, t) ==
    IF e \in DOMAIN bs \/ "default" \in DOMAIN bs THEN bs
    ELSE [x \in DOMAIN bs \cup {"default"} |->
            IF x = "default" THEN NewBucket(DefaultBurst, DefaultRate, t) ELSE bs[x]]

Refilled_Stored(b, t) == b.tokens

(* acquire, lines 50-58: refill *)
Refilled(b, t) ==
    Min(b.max_tokens, b.tokens + (t - b.last_refill) * b.refill_rate)

(* get_status, lines 81-86: the tokens a bucket holds as of the call *)
CurrentTokens_Stored(b, t) == b.tokens

CurrentTokens(b, t) ==
    Min(b.max_tokens, b.tokens + (t - b.last_refill) * b.refill_rate)

(* round(x, 2) of a count held in thousandths, as hundredths; a count that *)
(* lies halfway goes up or down with its binary representation            *)
Round2(v, up) ==
    IF v % 10 < 5 THEN v \div 10
    ELSE IF v % 10 > 5 THEN v \div 10 + 1
    ELSE IF up THEN v \div 10 + 1 ELSE v \div 10

(* last_request_times.get(endpoint, 0) *)
LastRequest(lrt, e) == IF e \in DOMAIN lrt THEN lrt[e] ELSE 0

(* get_status: the dictionary it returns *)
StatusOf(bs, lrt, t, up) ==
    [e \in DOMAIN bs |->
        [current_tokens |-> Round2(CurrentTokens(bs[e], t), up[e]),
         max_tokens |-> bs[e].max_tokens,
         refill_rate |-> bs[e].refill_rate,
         last_request |-> LastRequest(lrt, e)]]

NoStatus == [e \in {} |-> 0]

CanConsume_AnyToken(tokens) == tokens > 0

(* acquire, line 61 *)
CanConsume(tokens) == tokens >= TokenScale

Consume_Two(tokens) == tokens - 2 * TokenScale

Consume_Nothing(tokens) == tokens

(* acquire, line 62 *)
Consume(tokens) == tokens - TokenScale

WaitTime_None(tokens, rate) == 0

(* acquire, lines 68-69 *)
WaitTime(tokens, rate) == CeilDiv(TokenScale - tokens, rate) + Buffer

BucketNames == DOMAIN RATE_LIMITS \cup {"default"}

----------------------------------------------------------------------------
(* Errors and results.  An exception is its class and, for SPAPIError, the *)
(* details dict: keys names the keys the dict holds.                       *)
Exc(type, message, keys, status, response, url, method) ==
    [type |-> type, message |-> message, keys |-> keys, status_code |-> status,
     response |-> response, url |-> url, method |-> method]

NoExc == Exc("none", "", {}, 0, "none", "none", "none")

(* http_client.py lines 130-137: the error of a response with status >= 400 *)
APIError(status, response, url, method) ==
    Exc("SPAPIError", "API error", {"status_code", "response", "url", "method"},
        status, response, url, method)

(* http_client.py lines 141-143: a requests exception, wrapped *)
RequestFailed ==
    Exc("SPAPIError", "Request failed", {"original_error"}, 0, "none", "none", "none")

(* SPAPIError(message) with no details: details = {} *)
BareSPAPIError == Exc("SPAPIError", "", {}, 0, "none", "none", "none")

(* an exception that is no SPAPIError: its class and its message *)
Builtin(type, message) == Exc(type, message, {}, 0, "none", "none", "none")

(* format_error, lines 105-114: the guidance of a status code, "none" when *)
(* no branch adds the key                                                  *)
Guidance(status_code) ==
    IF status_code = 401 THEN "check credentials"
    ELSE IF status_code = 403 THEN "check permissions"
    ELSE IF status_code = 429 THEN "rate limit, retried automatically"
    ELSE IF status_code >= 500 THEN "server error, retried automatically"
    ELSE IF status_code = 400 THEN "bad request"
    ELSE "none"

Formatted(type, message, guidance) ==
    [kind |-> "return", type |-> type, message |-> message, guidance |-> guidance]

FormatRaised(type) ==
    [kind |-> "raise", type |-> type, message |-> "", guidance |-> "none"]

NoFormat == [kind |-> "none", type |-> "none", message |-> "", guidance |-> "none"]

(* format_error, lines 91-123: the dictionary it returns, or the TypeError *)
(* of `None >= 500` at line 111 when details has no status_code            *)
FormatError(e) ==
    IF e.type = "SPAPIError"
    THEN IF e.keys # {}
         THEN IF "status_code" \notin e.keys THEN FormatRaised("TypeError")
              ELSE Formatted("SPAPIError", e.message, Guidance(e.status_code))
         ELSE Formatted("SPAPIError", e.message, "none")
    ELSE Formatted(e.type, e.message, "unexpected error")

Return(v) == [kind |-> "return", value |-> v, exc |-> NoExc]
Raise(e)  == [kind |-> "raise", value |-> "none", exc |-> e]
NoResult  == [kind |-> "none", value |-> "none", exc |-> NoExc]

ShouldRetry_No401(e) ==
    IF e.type = "SPAPIError" /\ "status_code" \in e.keys
          /\ e.status_code \in {429, 500, 502, 503, 504}
    THEN "yes" ELSE "no"

(* error_handler.py _should_retry: "yes", "no", or "TypeError" when the    *)
(* comparison 400 <= None of line 70 raises                                *)
ShouldRetry(e) ==
    IF e.type = "SPAPIError" /\ e.keys # {}
    THEN IF "status_code" \notin e.keys THEN "TypeError"
         ELSE IF e.status_code \in {429, 500, 502, 503, 504} THEN "yes"
         ELSE IF e.status_code = 401 THEN "yes"
         ELSE IF 400 <= e.status_code /\ e.status_code < 500 THEN "no"
         ELSE IF e.type \in {"ConnectionError", "TimeoutError"} THEN "yes"
         ELSE "no"
    ELSE IF e.type \in {"ConnectionError", "TimeoutError"} THEN "yes"
    ELSE "no"

RECURSIVE Pow2(_)
Pow2(n) == IF n <= 0 THEN 1 ELSE 2 * Pow2(n - 1)

(* error_handler.py _calculate_backoff, in half seconds; jitter is drawn   *)
(* from [0.5, 1.5], here 1..3 half units                                   *)
Jitters == {1, 2, 3}
CalculateBackoff_Uncapped(k, jitter) == Pow2(k) * jitter

CalculateBackoff(k, jitter) == Min(2 * BackoffCap, Pow2(k) * jitter)

NoBackoff == [attempt |-> -1, jitter |-> 0, delay |-> 0]

SleepTicks(halfSeconds) == halfSeconds \div HalfSecondsPerTick

Put(f, k, v) == [x \in DOMAIN f \cup {k} |-> IF x = k THEN v ELSE f[x]]

----------------------------------------------------------------------------
(* LWATokenManager.  A token is <<kind, serial>>, an expiry <<"at", tick>>. *)
NoToken == <<"none", 0>>
EmptyToken == <<"", 0>>
Tok(n) == <<"tok", n>>
NoExpiry == <<"none", 0>>
At(t) == <<"at", t>>

(* Python truth of `self.access_token` *)
Truthy(tok) == tok[1] \notin {"none", ""}

IsTokenExpired_NoMargin(tok, exp, t) ==
    IF ~Truthy(tok) \/ exp = NoExpiry THEN TRUE
    ELSE t >= exp[2]

IsTokenExpired_Always(tok, exp, t) == TRUE

(* _is_token_expired, lines 34-41 *)
IsTokenExpired(tok, exp, t) ==
    IF ~Truthy(tok) \/ exp = NoExpiry THEN TRUE
    ELSE t + BufferTicks >= exp[2]

(* what the POST to the token endpoint and the reading of its response may *)
(* do.  expires_in is in ticks: 8 is inside the 5 minute margin, 12 leaves *)
(* it after 2 ticks.                                                       *)
ExchangeOutcomes ==
    {[kind |-> "ok", expires_in |-> e] : e \in {8, 12}}
    \cup {[kind |-> k, expires_in |-> 0] :
            k \in {"ok_no_expires_in", "empty_token", "request_exception",
                   "missing_token", "bad_expires_in", "other_exception"}}

NoExchange == [kind |-> "no_exchange", expires_in |-> 0]

(* _refresh_access_token, lines 43-78: the cache and the exception (NoExc  *)
(* when it returns) after an exchange that went as `out`; serial is the    *)
(* serial number of the token the endpoint issues                          *)
RefreshAccessToken(tok, exp, out, t, serial) ==
    CASE out.kind = "ok" ->
            [token |-> Tok(serial), expires_at |-> At(t + out.expires_in), exc |-> NoExc]
      [] out.kind = "ok_no_expires_in" ->
            [token |-> Tok(serial), expires_at |-> At(t + DefaultExpiresIn), exc |-> NoExc]
      [] out.kind = "empty_token" ->
            [token |-> EmptyToken, expires_at |-> At(t + DefaultExpiresIn), exc |-> NoExc]
      [] out.kind = "request_exception" ->
            [token |-> tok, expires_at |-> exp,
             exc |-> Builtin("Exception", "LWA token refresh failed")]
      [] out.kind = "missing_token" ->
            [token |-> tok, expires_at |-> exp,
             exc |-> Builtin("Exception", "Invalid LWA token response")]
      [] out.kind = "bad_expires_in" ->
            [token |-> Tok(serial), expires_at |-> exp, exc |-> Builtin("TypeError", "")]
      [] out.kind = "other_exception" ->
            [token |-> tok, expires_at |-> exp, exc |-> Builtin("ValueError", "")]

(* get_access_token, line 26: whether it refreshes *)
NeedsRefresh(tok, exp, force, t) == IsTokenExpired(tok, exp, t) \/ force

(* get_access_token, lines 24-32: the cache after the call, the exception  *)
(* it raises (NoExc when it returns) and the token it returns              *)
GetAccessToken(tok, exp, force, out, t, serial) ==
    LET r == IF NeedsRefresh(tok, exp, force, t)
             THEN RefreshAccessToken(tok, exp, out, t, serial)
             ELSE [token |-> tok, expires_at |-> exp, exc |-> NoExc]
    IN  [token |-> r.token, expires_at |-> r.expires_at,
         exc |-> IF r.exc # NoExc THEN r.exc
                 ELSE IF ~Truthy(r.token)
                      THEN Builtin("Exception", "Failed to obtain access token")
                      ELSE NoExc,
         returned |-> IF r.exc = NoExc /\ Truthy(r.token) THEN r.token ELSE NoToken]

(* the expiry of the token an exchange issued; NoExpiry when it issued no *)
(* usable token                                                           *)
IssuedExpiry(out, t) ==
    IF out.kind = "ok" THEN At(t + out.expires_in)
    ELSE IF out.kind = "ok_no_expires_in" THEN At(t + DefaultExpiresIn)
    ELSE NoExpiry

(* the exchanges a call may meet: none when it sends nothing *)
ExchangesFor(needed) == IF needed THEN ExchangeOutcomes ELSE {NoExchange}

NoCall ==
    [name |-> "none", force |-> FALSE, at |-> 0, pre_token |-> NoToken,
     pre_expiry |-> NoExpiry, outcome |-> "none", exc |-> NoExc, returned |-> NoToken]

Rdt == <<"rdt", 1>>

NoArgs == [method |-> "none", endpoint |-> "none", params |-> <<>>,
           use_rdt |-> FALSE, rdt_token |-> NoToken]

NoRequest == [method |-> "none", url |-> "none", token |-> NoToken, signed |-> "none"]

----------------------------------------------------------------------------
(* AWSAuthManager: the cached signing identity *)

NoCredentials == <<"none", 0>>
Cred(n) == <<"cred", n>>

(* an sts assume_role call: its RoleSessionName and the method making it; *)
(* get_credentials passes the name of aws_auth.py line 48                 *)
AssumeCall == [session |-> "sp-api-mcp-session", by |-> "get_credentials"]

(* what sts.assume_role may do *)
AssumeRoleOutcomes == {"ok", "error"}

GetCredentials_NoCache(cred, role, out, serial) ==
    IF role /\ out = "error"
    THEN [credentials |-> cred, returned |-> NoCredentials,
          exc |-> Builtin("Exception", "AWS credentials error"), sts |-> <<AssumeCall>>]
    ELSE [credentials |-> Cred(serial), returned |-> Cred(serial), exc |-> NoExc,
          sts |-> IF role THEN <<AssumeCall>> ELSE <<>>]

(* get_credentials, aws_auth.py lines 30-74: the cache after the call, what  *)
(* it returns, the exception it raises and the assume_role calls it makes;  *)
(* out is what sts.assume_role does if it is called, serial numbers a new   *)
(* Credentials instance                                                      *)
GetCredentials(cred, role, out, serial) ==
    IF cred # NoCredentials
    THEN [credentials |-> cred, returned |-> cred, exc |-> NoExc, sts |-> <<>>]
    ELSE IF role /\ out = "error"
    THEN [credentials |-> cred, returned |-> NoCredentials,
          exc |-> Builtin("Exception", "AWS credentials error"), sts |-> <<AssumeCall>>]
    ELSE [credentials |-> Cred(serial), returned |-> Cred(serial), exc |-> NoExc,
          sts |-> IF role THEN <<AssumeCall>> ELSE <<>>]

(* the outcomes of assume_role a call of get_credentials may meet: none    *)
(* when it does not call it                                                *)
AssumeRoleFor(cred, role) ==
    IF cred = NoCredentials /\ role THEN AssumeRoleOutcomes ELSE {"not_called"}

NoAwsCall ==
    [name |-> "none", pre |-> NoCredentials, returned |-> NoCredentials, exc |-> NoExc,
     outcome |-> "none"]

----------------------------------------------------------------------------
(* The state after construction of the client and its components *)
InitCommon ==
    /\ now = 0
    /\ running = NoTask
    /\ buckets = InitBuckets
    /\ last_request_times = <<>>
    /\ granted = [b \in BucketNames |-> 0]
    /\ bucket_t0 = [b \in BucketNames |-> 0]
    /\ pc = [p \in Procs |-> "idle"]
    /\ op = [p \in Procs |-> "none"]
    /\ endpoint = [p \in Procs |-> "none"]
    /\ wake = [p \in Procs |-> 0]
    /\ attempt = [p \in Procs |-> 0]
    /\ result = [p \in Procs |-> NoResult]
    /\ trace = [p \in Procs |-> <<>>]
    /\ waits = [p \in Procs |-> 0]
    /\ access_token = NoToken
    /\ token_expires_at = NoExpiry
    /\ exchanges = 0
    /\ issued = <<>>
    /\ lwa_call = NoCall
    /\ credentials = NoCredentials
    /\ sts_calls = <<>>
    /\ identities = 0
    /\ aws_call = NoAwsCall
    /\ args = [p \in Procs |-> NoArgs]
    /\ aws_request = [p \in Procs |-> NoRequest]
    /\ wire = [p \in Procs |-> <<>>]
    /\ status_report = NoStatus
    /\ formatted = [p \in Procs |-> NoFormat]
    /\ backoff_call = NoBackoff

InitRL ==
    /\ InitCommon
    /\ aws_role_arn = TRUE
    /\ max_retries = 3

(* time passes; time.time() never goes back in this specification *)
Tick ==
    /\ now < MaxTime
    /\ now' = now + 1
    /\ UNCHANGED <<running, rlvars, taskvars, max_retries, callvars, retryvars, lwavars, pipevars>>

(* a caller starts `await rate_limiter.acquire(e)` as a task of its own *)
StartAcquire(p, e) ==
    /\ pc[p] = "idle" /\ running = NoTask
    /\ op' = [op EXCEPT ![p] = "acquire"]
    /\ endpoint' = [endpoint EXCEPT ![p] = e]
    /\ pc' = [pc EXCEPT ![p] = "acquire"]
    /\ running' = p
    /\ UNCHANGED <<now, rlvars, wake, max_retries, callvars, retryvars, lwavars, pipevars>>

(* RateLimiter.acquire: the bucket lookup and one iteration of `while True` *)
Acquire(p) ==
    /\ pc[p] = "acquire" /\ running = p
    /\ LET name == BucketName(endpoint[p])
           bs == WithDefault(buckets, endpoint[p], now)
           b == bs[name]
           t == Refilled(b, now)
       IN  /\ bucket_t0' = IF name \in DOMAIN buckets THEN bucket_t0
                           ELSE [bucket_t0 EXCEPT ![name] = now]
           /\ IF CanConsume(t)
              THEN /\ buckets' = [bs EXCEPT ![name] =
                                    [b EXCEPT !.tokens = Consume(t), !.last_refill = now]]
                   /\ last_request_times' = Put(last_request_times, name, now)
                   /\ granted' = [granted EXCEPT ![name] = @ + 1]
                   /\ pc' = [pc EXCEPT ![p] = IF op[p] = "request" THEN "auth" ELSE "done"]
                   /\ running' = IF op[p] = "request" THEN p ELSE NoTask
                   /\ wake' = wake
              ELSE /\ buckets' = [bs EXCEPT ![name] =
                                    [b EXCEPT !.tokens = t, !.last_refill = now]]
                   /\ wake' = [wake EXCEPT ![p] = now + WaitTime(t, b.refill_rate)]
                   /\ pc' = [pc EXCEPT ![p] = "rl_sleep"]
                   /\ running' = NoTask
                   /\ UNCHANGED <<last_request_times, granted>>
    /\ UNCHANGED <<now, op, endpoint, max_retries, callvars, retryvars, lwavars, pipevars, status_report>>

(* asyncio.sleep(wait_time) is over: the loop runs the task again *)
AcquireWake(p) ==
    /\ pc[p] = "rl_sleep" /\ running = NoTask
    /\ now >= wake[p]
    /\ pc' = [pc EXCEPT ![p] = "acquire"]
    /\ wake' = [wake EXCEPT ![p] = 0]
    /\ running' = p
    /\ UNCHANGED <<now, rlvars, op, endpoint, max_retries, callvars, retryvars, lwavars, pipevars>>

----------------------------------------------------------------------------
(* SPAPIClient: the request pipeline *)

(* the calls of request(...) the model makes: the first client any of     *)
(* them, the second one a bearer-token call on the same endpoint group     *)
BearerCall ==
    [method |-> "get", endpoint |-> "inventory", params |-> <<<<"k", "v">>>>,
     use_rdt |-> FALSE, rdt_token |-> NoToken]

RequestArgs(p) ==
    IF p = "t1"
    THEN {BearerCall,
          [method |-> "POST", endpoint |-> "inventory", params |-> <<>>,
           use_rdt |-> TRUE, rdt_token |-> Rdt],
          [method |-> "GET", endpoint |-> "shipping", params |-> <<>>,
           use_rdt |-> TRUE, rdt_token |-> NoToken]}
    ELSE {BearerCall}

(* method.upper(), line 85 *)
Upper(m) == IF m = "get" THEN "GET" ELSE m

(* params is the sequence of the dict's items, <<key, value>>, and None is *)
(* the value "null"; no params argument and an empty dict are both <<>>   *)
RECURSIVE QueryItems(_)
QueryItems(params) ==
    IF params = <<>> THEN <<>>
    ELSE IF Head(params)[2] = "null" THEN QueryItems(Tail(params))
    ELSE <<Head(params)[1] \o "=" \o Head(params)[2]>> \o QueryItems(Tail(params))

RECURSIVE Join(_)
Join(items) ==
    IF items = <<>> THEN ""
    ELSE IF Len(items) = 1 THEN items[1]
    ELSE items[1] \o "&" \o Join(Tail(items))

(* lines 93-95: '&'.join(f"{k}={v}" for k, v in params.items() if v is not None) *)
QueryString(params) == Join(QueryItems(params))

(* lines 92-95: the query string is appended to the signed request's url *)
AppendParams(url, params) ==
    IF params = <<>> THEN url ELSE url \o "?" \o QueryString(params)

SignedContent_WithQuery(url, params) == AppendParams(url, params)

(* lines 84-89: the url handed to create_signed_request, which signs it *)
SignedContent(url, params) == url

(* what session.request may do: a response (status, kind of body) or a     *)
(* requests exception                                                      *)
Resp(status, body) == [kind |-> "response", status |-> status, body |-> body]
NetFail == [kind |-> "netfail", status |-> 0, body |-> "none"]

TransportResults ==
    {Resp(200, "json"), Resp(204, "none"), Resp(302, "text"),
     Resp(401, "text"), Resp(403, "json"), NetFail}

(* lines 124-127: response.json(), or the raw text wrapped *)
ParseBody(body) == IF body = "json" THEN "parsed json" ELSE "raw_content"

IsErrorStatus_ServerOnly(status) == status >= 500

(* line 130 *)
IsErrorStatus(status) == status >= 400

(* _execute_request, lines 102-143 *)
ExecuteRequest(req, tr) ==
    IF tr.kind = "netfail" THEN Raise(RequestFailed)
    ELSE IF tr.status = 204 THEN Return("success")
    ELSE IF IsErrorStatus(tr.status)
         THEN Raise(APIError(tr.status, ParseBody(tr.body), req.url, req.method))
         ELSE Return(ParseBody(tr.body))

(* the task ends: its coroutine returned or raised *)
Finish(p, r) ==
    /\ result' = [result EXCEPT ![p] = r]
    /\ pc' = [pc EXCEPT ![p] = IF r.kind = "return" THEN "returned" ELSE "raised"]
    /\ running' = NoTask

(* a caller starts `await client.request(...)` as a task *)
StartRequest(p, a) ==
    /\ pc[p] = "idle" /\ running = NoTask
    /\ op' = [op EXCEPT ![p] = "request"]
    /\ args' = [args EXCEPT ![p] = a]
    /\ endpoint' = [endpoint EXCEPT ![p] = a.endpoint]
    /\ pc' = [pc EXCEPT ![p] = "acquire"]
    /\ running' = p
    /\ UNCHANGED <<now, rlvars, wake, max_retries, callvars, retryvars, lwavars, credentials,
                   aws_request, awsvars>>

UseRdt_Never(a) == FALSE

UseRdt_Always(a) == TRUE

(* request, line 65: `if use_rdt and rdt_token` *)
UseRdt(a) == a.use_rdt /\ Truthy(a.rdt_token)

(* request, lines 52-71: url, headers and the credential header *)
Authenticate(p) ==
    /\ pc[p] = "auth" /\ running = p
    /\ IF UseRdt(args[p])
       THEN /\ aws_request' = [aws_request EXCEPT ![p] =
                    [method |-> "none", url |-> "/path", token |-> args[p].rdt_token,
                     signed |-> "none"]]
            /\ pc' = [pc EXCEPT ![p] = "sign"]
            /\ UNCHANGED <<running, result, lwavars>>
       ELSE LET needed == NeedsRefresh(access_token, token_expires_at, FALSE, now)
            IN  /\ needed => exchanges < MaxExchanges
                /\ \E out \in ExchangesFor(needed) :
                    LET r == GetAccessToken(access_token, token_expires_at, FALSE, out, now,
                                            exchanges + 1)
                    IN  /\ access_token' = r.token
                        /\ token_expires_at' = r.expires_at
                        /\ exchanges' = IF needed THEN exchanges + 1 ELSE exchanges
                        /\ issued' = IF needed THEN Append(issued, IssuedExpiry(out, now))
                                     ELSE issued
                        /\ lwa_call' = [name |-> "get_access_token", force |-> FALSE,
                                        at |-> now, pre_token |-> access_token,
                                        pre_expiry |-> token_expires_at,
                                        outcome |-> out.kind, exc |-> r.exc,
                                        returned |-> r.returned]
                        /\ IF r.exc # NoExc
                           THEN /\ Finish(p, Raise(r.exc))
                                /\ UNCHANGED aws_request
                           ELSE /\ aws_request' = [aws_request EXCEPT ![p] =
                                        [method |-> "none", url |-> "/path",
                                         token |-> r.returned, signed |-> "none"]]
                                /\ pc' = [pc EXCEPT ![p] = "sign"]
                                /\ UNCHANGED <<running, result>>
    /\ UNCHANGED <<now, rlvars, op, endpoint, wake, max_retries, callvars, attempt, trace, waits,
                   wire, credentials, args, awsvars>>

(* request, lines 73-100: create_signed_request (aws_auth.py lines 30-113), *)
(* then the query parameters, then the call of execute_with_retry           *)
SignRequest(p) ==
    /\ pc[p] = "sign" /\ running = p
    /\ \E o \in AssumeRoleFor(credentials, aws_role_arn) :
        LET r == GetCredentials(credentials, aws_role_arn, o, identities + 1) IN
        /\ Len(sts_calls) + Len(r.sts) <= MaxAssumes
        /\ credentials' = r.credentials
        /\ sts_calls' = sts_calls \o r.sts
        /\ identities' = IF r.credentials # credentials THEN identities + 1 ELSE identities
        /\ aws_call' = [name |-> "sign_request", pre |-> credentials,
                        returned |-> r.returned, exc |-> r.exc, outcome |-> o]
        /\ IF r.exc # NoExc
           THEN /\ Finish(p, Raise(r.exc))
                /\ UNCHANGED <<aws_request, attempt>>
           ELSE /\ aws_request' = [aws_request EXCEPT ![p] =
                       [method |-> Upper(args[p].method),
                        url |-> AppendParams(@.url, args[p].params),
                        token |-> @.token,
                        signed |-> SignedContent(@.url, args[p].params)]]
                /\ attempt' = [attempt EXCEPT ![p] = 0]
                /\ pc' = [pc EXCEPT ![p] = "attempt"]
                /\ UNCHANGED <<running, result>>
    /\ UNCHANGED <<now, rlvars, op, endpoint, wake, max_retries, callvars, trace, waits, wire,
                   lwavars, args, aws_role_arn>>

----------------------------------------------------------------------------
(* SPAPIErrorHandler.execute_with_retry on an arbitrary operation *)

RetryStatuses == {301, 400, 401, 403, 404, 429, 500, 501, 502, 503, 504}

(* what an arbitrary operation handed to execute_with_retry may do *)
GenericOutcomes ==
    {Return("A"), Return("B")}
    \cup {Raise(APIError(s, "body", "url", "GET")) : s \in RetryStatuses}
    \cup {Raise(RequestFailed), Raise(BareSPAPIError), Raise(Builtin("ConnectionError", "")),
          Raise(Builtin("TimeoutError", "")), Raise(Builtin("ValueError", ""))}

NoWire == [kind |-> "none", status |-> 0, body |-> "none"]

(* one call of the operation: what the transport did and how the call ended *)
Calls(p) ==
    IF op[p] = "request"
    THEN {[wire |-> tr, outcome |-> ExecuteRequest(aws_request[p], tr)] :
            tr \in TransportResults}
    ELSE {[wire |-> NoWire, outcome |-> o] : o \in GenericOutcomes}

(* a caller starts `await error_handler.execute_with_retry(func)` *)
StartRetry(p) ==
    /\ pc[p] = "idle" /\ running = NoTask
    /\ op' = [op EXCEPT ![p] = "retry"]
    /\ pc' = [pc EXCEPT ![p] = "attempt"]
    /\ attempt' = [attempt EXCEPT ![p] = 0]
    /\ running' = p
    /\ UNCHANGED <<now, rlvars, endpoint, wake, max_retries, callvars, result, trace, waits, wire,
                   lwavars, pipevars>>

(* the exhausted `for attempt in range(max_retries + 1)`: the function     *)
(* falls off its end and returns None                                      *)
RangeExhausted(k, m) == k > m

LastAttempt_OffByOne(k, m) == k + 1 = m

(* line 32: the last allowed attempt *)
LastAttempt(k, m) == k = m

RaiseNow_Never(k, m, verdict) == FALSE

RaiseNow_LastOnly(k, m, verdict) == LastAttempt(k, m)

(* line 32: the error of this attempt is re-raised; _should_retry is not *)
(* called on the last allowed attempt                                    *)
RaiseNow(k, m, verdict) == LastAttempt(k, m) \/ verdict = "no"

(* execute_with_retry: one iteration of the for loop, lines 26-43 *)
ExecuteWithRetry(p) ==
    /\ pc[p] = "attempt" /\ running = p
    /\ IF RangeExhausted(attempt[p], max_retries)
       THEN /\ Finish(p, Return("None"))
            /\ UNCHANGED <<wake, attempt, trace, waits, wire>>
       ELSE \E c \in Calls(p) : LET o == c.outcome IN
            /\ trace' = [trace EXCEPT ![p] = Append(@, o)]
            /\ wire' = [wire EXCEPT ![p] = Append(@, c.wire)]
            /\ IF o.kind = "return"
               THEN /\ Finish(p, o)
                    /\ UNCHANGED <<wake, attempt, waits>>
               ELSE IF RaiseNow(attempt[p], max_retries, ShouldRetry(o.exc))
               THEN /\ Finish(p, o)
                    /\ UNCHANGED <<wake, attempt, waits>>
               ELSE IF ShouldRetry(o.exc) = "TypeError"
               THEN /\ Finish(p, Raise(Builtin("TypeError", "")))
                    /\ UNCHANGED <<wake, attempt, waits>>
               ELSE \E j \in Jitters :
                    /\ wake' = [wake EXCEPT ![p] =
                                  now + SleepTicks(CalculateBackoff(attempt[p], j))]
                    /\ waits' = [waits EXCEPT ![p] = @ + 1]
                    /\ attempt' = [attempt EXCEPT ![p] = @ + 1]
                    /\ pc' = [pc EXCEPT ![p] = "backoff"]
                    /\ running' = NoTask
                    /\ result' = result
    /\ UNCHANGED <<now, rlvars, op, endpoint, max_retries, callvars, lwavars, pipevars>>

(* asyncio.sleep(backoff_time) is over *)
BackoffWake(p) ==
    /\ pc[p] = "backoff" /\ running = NoTask
    /\ now >= wake[p]
    /\ pc' = [pc EXCEPT ![p] = "attempt"]
    /\ wake' = [wake EXCEPT ![p] = 0]
    /\ running' = p
    /\ UNCHANGED <<now, rlvars, op, endpoint, max_retries, callvars, retryvars, lwavars, pipevars>>

(* a synchronous caller calls lwa_manager.get_access_token(force) *)
CallGetAccessToken(force) ==
    /\ running = NoTask
    /\ LET needed == NeedsRefresh(access_token, token_expires_at, force, now)
       IN  /\ needed => exchanges < MaxExchanges
           /\ \E out \in ExchangesFor(needed) :
               LET r == GetAccessToken(access_token, token_expires_at, force, out, now,
                                       exchanges + 1)
               IN  /\ access_token' = r.token
                   /\ token_expires_at' = r.expires_at
                   /\ exchanges' = IF needed THEN exchanges + 1 ELSE exchanges
                   /\ issued' = IF needed THEN Append(issued, IssuedExpiry(out, now))
                                ELSE issued
                   /\ lwa_call' = [name |-> "get_access_token", force |-> force, at |-> now,
                                   pre_token |-> access_token,
                                   pre_expiry |-> token_expires_at,
                                   outcome |-> out.kind, exc |-> r.exc,
                                   returned |-> r.returned]
    /\ UNCHANGED <<now, running, rlvars, taskvars, max_retries, callvars, retryvars, pipevars>>

(* validate_credentials, lines 110-135 *)
ValidateCredentials ==
    /\ running = NoTask
    /\ exchanges < MaxExchanges
    /\ \E out \in ExchangeOutcomes :
        LET r == RefreshAccessToken(access_token, token_expires_at, out, now, exchanges + 1)
            restore == /\ r.exc = NoExc
                       /\ Truthy(access_token)
                       /\ ~IsTokenExpired(r.token, r.expires_at, now)
        IN  /\ access_token' = IF restore THEN access_token ELSE r.token
            /\ token_expires_at' = r.expires_at
            /\ exchanges' = exchanges + 1
            /\ issued' = Append(issued, IssuedExpiry(out, now))
            /\ lwa_call' = [name |-> "validate_credentials", force |-> FALSE, at |-> now,
                            pre_token |-> access_token, pre_expiry |-> token_expires_at,
                            outcome |-> out.kind, exc |-> r.exc, returned |-> NoToken]
    /\ UNCHANGED <<now, running, rlvars, taskvars, max_retries, callvars, retryvars, pipevars>>

(* what the client_credentials POST and the reading of its response may do *)
ClientCredentialsOutcomes == {"ok", "request_exception", "missing_token"}

(* get_client_credentials_token, lines 80-108: what it returns and raises; *)
(* the KeyError of a response without access_token is not caught           *)
GetClientCredentialsToken(out) ==
    CASE out = "ok" -> [returned |-> <<"scoped", 1>>, exc |-> NoExc]
      [] out = "request_exception" ->
            [returned |-> NoToken,
             exc |-> Builtin("Exception", "Client credentials token failed")]
      [] out = "missing_token" ->
            [returned |-> NoToken, exc |-> Builtin("KeyError", "access_token")]

(* a synchronous caller calls lwa_manager.get_client_credentials_token(scope) *)
CallGetClientCredentialsToken ==
    /\ running = NoTask
    /\ \E out \in ClientCredentialsOutcomes :
          LET r == GetClientCredentialsToken(out)
          IN  lwa_call' = [name |-> "get_client_credentials_token", force |-> FALSE,
                           at |-> now, pre_token |-> access_token,
                           pre_expiry |-> token_expires_at, outcome |-> out,
                           exc |-> r.exc, returned |-> r.returned]
    /\ UNCHANGED <<now, running, rlvars, taskvars, max_retries, callvars, retryvars,
                   pipevars, access_token, token_expires_at, exchanges, issued>>

InitAuth ==
    /\ InitCommon
    /\ aws_role_arn = TRUE
    /\ max_retries = 3

NextAuth ==
    \/ Tick
    \/ \E force \in BOOLEAN : CallGetAccessToken(force)
    \/ ValidateCredentials
    \/ CallGetClientCredentialsToken

SpecAuth == InitAuth /\ [][NextAuth]_vars

----------------------------------------------------------------------------
(* AWSAuthManager called on its own *)

(* a caller calls get_credentials(), or sign_request(request), which       *)
(* starts with get_credentials() (aws_auth.py line 78)                     *)
CallGetCredentials(name) ==
    /\ running = NoTask
    /\ \E o \in AssumeRoleFor(credentials, aws_role_arn) :
        LET r == GetCredentials(credentials, aws_role_arn, o, identities + 1) IN
        /\ Len(sts_calls) + Len(r.sts) <= MaxAssumes
        /\ r.credentials # credentials => identities < MaxAssumes
        /\ credentials' = r.credentials
        /\ sts_calls' = sts_calls \o r.sts
        /\ identities' = IF r.credentials # credentials THEN identities + 1 ELSE identities
        /\ aws_call' = [name |-> name, pre |-> credentials, returned |-> r.returned,
                        exc |-> r.exc, outcome |-> o]
    /\ UNCHANGED <<now, running, rlvars, taskvars, max_retries, callvars, retryvars, lwavars, args,
                   aws_request, aws_role_arn>>

(* refresh_credentials, aws_auth.py lines 162-166 *)
RefreshCredentials ==
    /\ running = NoTask
    /\ credentials' = NoCredentials
    /\ aws_call' = [name |-> "refresh_credentials", pre |-> credentials,
                    returned |-> NoCredentials, exc |-> NoExc, outcome |-> "not_called"]
    /\ UNCHANGED <<now, running, rlvars, taskvars, max_retries, callvars, retryvars, lwavars, args,
                   aws_request, aws_role_arn, sts_calls, identities>>

(* AWSAuthManager.validate_credentials, aws_auth.py lines 115-160: it asks *)
(* sts for the caller identity and, with a role configured, tries the role *)
(* under a session name of its own; it reads and writes no cache           *)
ValidateAwsCredentials ==
    /\ running = NoTask
    /\ \E o \in {"identity_error", "ok", "role_error"} :
        LET calls == IF aws_role_arn /\ o # "identity_error"
                     THEN <<[session |-> "sp-api-validation-test",
                             by |-> "validate_credentials"]>>
                     ELSE <<>>
        IN  /\ Len(sts_calls) + Len(calls) <= MaxAssumes
            /\ sts_calls' = sts_calls \o calls
            /\ aws_call' = [name |-> "validate_credentials", pre |-> credentials,
                            returned |-> NoCredentials, exc |-> NoExc, outcome |-> o]
    /\ UNCHANGED <<now, running, rlvars, taskvars, max_retries, callvars, retryvars, lwavars, args,
                   aws_request, aws_role_arn, credentials, identities>>

InitAws ==
    /\ InitCommon
    /\ max_retries = 3
    /\ aws_role_arn \in BOOLEAN

NextAws ==
    \/ Tick
    \/ \E name \in {"get_credentials", "sign_request"} : CallGetCredentials(name)
    \/ RefreshCredentials
    \/ ValidateAwsCredentials

SpecAws == InitAws /\ [][NextAws]_vars

InitRetry ==
    /\ InitCommon
    /\ aws_role_arn = TRUE
    /\ max_retries \in -1 .. MaxRetries

NextRetry ==
    \/ Tick
    \/ StartRetry("t1")
    \/ ExecuteWithRetry("t1")
    \/ BackoffWake("t1")

SpecRetry == InitRetry /\ [][NextRetry]_vars

(* _calculate_backoff called with an attempt index the loop of line 26 can *)
(* reach before line 36: 0 <= attempt < max_retries                        *)
InitBackoff ==
    /\ InitCommon
    /\ aws_role_arn = TRUE
    /\ max_retries \in 1 .. MaxBackoffRetries

CallCalculateBackoff(k) ==
    /\ k < max_retries
    /\ \E j \in Jitters :
          backoff_call' = [attempt |-> k, jitter |-> j, delay |-> CalculateBackoff(k, j)]
    /\ UNCHANGED <<now, running, rlvars, taskvars, max_retries, formatted, retryvars,
                   lwavars, pipevars>>

NextBackoff == \E k \in 0 .. MaxBackoffRetries - 1 : CallCalculateBackoff(k)

SpecBackoff == InitBackoff /\ [][NextBackoff]_vars

(* the caller of a call that raised hands the error to format_error *)
CallFormatError(p) ==
    /\ pc[p] = "raised" /\ running = NoTask
    /\ formatted[p] = NoFormat
    /\ formatted' = [formatted EXCEPT ![p] = FormatError(result[p].exc)]
    /\ UNCHANGED <<now, running, rlvars, taskvars, max_retries, backoff_call, retryvars,
                   lwavars, pipevars>>

NextFormat ==
    \/ NextRetry
    \/ CallFormatError("t1")

SpecFormat == InitRetry /\ [][NextFormat]_vars

InitPipe ==
    /\ InitCommon
    /\ aws_role_arn = TRUE
    /\ max_retries = 1

Clients == {"t1", "t2"}

Next ==
    \/ Tick
    \/ \E p \in Clients : \E a \in RequestArgs(p) : StartRequest(p, a)
    \/ \E p \in Clients : Acquire(p)
    \/ \E p \in Clients : AcquireWake(p)
    \/ \E p \in Clients : Authenticate(p)
    \/ \E p \in Clients : SignRequest(p)
    \/ \E p \in Clients : ExecuteWithRetry(p)
    \/ \E p \in Clients : BackoffWake(p)

Spec == InitPipe /\ [][Next]_vars

(* calls of request that differ in their params argument only: the first  *)
(* client makes any of them, the second one the call with k=v             *)
ParamSets ==
    {<<>>, <<<<"k", "v">>>>, <<<<"n", "null">>>>,
     <<<<"k", "v">>, <<"n", "null">>, <<"m", "w">>>>}

QueryArgs(p) ==
    IF p = "t1" THEN {[BearerCall EXCEPT !.params = q] : q \in ParamSets}
    ELSE {BearerCall}

NextQuery ==
    \/ Tick
    \/ \E p \in Clients : \E a \in QueryArgs(p) : StartRequest(p, a)
    \/ \E p \in Clients : Acquire(p)
    \/ \E p \in Clients : AcquireWake(p)
    \/ \E p \in Clients : Authenticate(p)
    \/ \E p \in Clients : SignRequest(p)
    \/ \E p \in Clients : ExecuteWithRetry(p)
    \/ \E p \in Clients : BackoffWake(p)

SpecQuery == InitPipe /\ [][NextQuery]_vars

NextRL ==
    \/ Tick
    \/ \E p \in Procs, e \in Endpoints : StartAcquire(p, e)
    \/ \E p \in Procs : Acquire(p)
    \/ \E p \in Procs : AcquireWake(p)

SpecRL == InitRL /\ [][NextRL]_vars

(* RateLimiter.get_status: synchronous, called between the steps of the tasks *)
GetStatus ==
    /\ \E up \in [DOMAIN buckets -> BOOLEAN] :
          status_report' = StatusOf(buckets, last_request_times, now, up)
    /\ UNCHANGED <<now, running, buckets, last_request_times, granted, bucket_t0,
                   taskvars, max_retries, callvars, retryvars, lwavars, pipevars>>

NextStatus ==
    \/ NextRL
    \/ GetStatus

SpecStatus == InitRL /\ [][NextStatus]_vars

(* time.time() is the wall clock: it may be set back between two readings *)
TickBack ==
    /\ now > 0
    /\ now' = now - 1
    /\ UNCHANGED <<running, rlvars, taskvars, max_retries, callvars, retryvars, lwavars,
                   pipevars>>

NextClock ==
    \/ Tick
    \/ TickBack
    \/ \E p \in Clients, e \in Endpoints : StartAcquire(p, e)
    \/ \E p \in Clients : Acquire(p)
    \/ \E p \in Clients : AcquireWake(p)
    \/ GetStatus

SpecClock == InitRL /\ [][NextClock]_vars

(* the rate limiter under an advancing clock and a fair event loop: the    *)
(* clock moves on, a task the loop is running takes its step, and a task   *)
(* whose sleep is over is run again                                        *)
(* a step of a task takes no time on the scale of a tick: the clock moves *)
(* on when no task is running and no task's sleep is over                 *)
TickFair ==
    /\ now < FairMaxTime
    /\ running = NoTask
    /\ \A p \in Procs : pc[p] = "rl_sleep" => now < wake[p]
    /\ now' = now + 1
    /\ UNCHANGED <<running, rlvars, taskvars, max_retries, callvars, retryvars, lwavars, pipevars>>

NextRLFair ==
    \/ TickFair
    \/ \E p \in Procs, e \in Endpoints : StartAcquire(p, e)
    \/ \E p \in Procs : Acquire(p)
    \/ \E p \in Procs : AcquireWake(p)

SpecRLFair ==
    /\ InitRL /\ [][NextRLFair]_vars
    /\ WF_vars(TickFair)
    /\ \A p \in Procs : WF_vars(Acquire(p)) /\ WF_vars(AcquireWake(p))

(* the longest wait acquire asks for: a drained bucket of the slowest rate *)
WorstWait == WaitTime(0, RATE_LIMITS["orders"].rate)

----------------------------------------------------------------------------
\* C1: under a non-decreasing clock, every bucket's token count stays within
\* 0 <= tokens <= max_tokens in every reachable state, whatever the interleaving
\* of the concurrent acquirers.
C1_TokensInRange ==
    \A b \in DOMAIN buckets :
        0 <= buckets[b].tokens /\ buckets[b].tokens <= buckets[b].max_tokens

C1_Witness ==
    /\ \A p \in Procs : op[p] = "acquire" /\ endpoint[p] = "orders"
    /\ \E p \in Procs : pc[p] = "rl_sleep"
    /\ buckets["orders"].tokens = 0

\* C2: the acquisitions granted on a bucket never exceed its initial tokens plus
\* the tokens refilled since it was created (rate x elapsed time), and a step that
\* grants an acquisition grants exactly one and leaves the bucket with its
\* refilled token count minus exactly one token.
C2_GrantedBound ==
    \A b \in DOMAIN buckets :
        granted[b] * TokenScale
            <= buckets[b].max_tokens + buckets[b].refill_rate * (now - bucket_t0[b])

C2_GrantStep ==
    \A b \in DOMAIN buckets' :
        LET pre == IF b \in DOMAIN buckets THEN buckets[b]
                   ELSE [tokens |-> DefaultBurst * TokenScale,
                         max_tokens |-> DefaultBurst * TokenScale,
                         refill_rate |-> DefaultRate, last_refill |-> now]
            full == pre.tokens + (now - pre.last_refill) * pre.refill_rate
            refilled == IF full <= pre.max_tokens THEN full ELSE pre.max_tokens
        IN  /\ granted'[b] \in {granted[b], granted[b] + 1}
            /\ granted'[b] = granted[b] + 1 => buckets'[b].tokens = refilled - TokenScale
            /\ granted'[b] = granted[b] /\ b \in DOMAIN buckets
                    => buckets'[b].tokens >= buckets[b].tokens

C2_NoDoubleConsumption == [](C2_GrantedBound) /\ [][C2_GrantStep]_vars

C2_Witness ==
    /\ granted["orders"] = OrdersBurst + 1
    /\ \A p \in Procs : pc[p] = "done" /\ endpoint[p] = "orders"

\* C3: with max_retries = m >= 0, a call that ends by returning made k + 1 attempts
\* of which the first k failed retryably, slept k times, k <= m, and returns the
\* result of its last attempt; and a call all of whose attempts failed retryably
\* ends only after exactly m + 1 attempts, raising the error of the last one.
C3_RetryCounts ==
    \A p \in Procs :
        (op[p] = "retry" /\ max_retries >= 0) =>
            LET n == Len(trace[p])
                allRetryable == \A i \in 1 .. n :
                    trace[p][i].kind = "raise" /\ ShouldRetry(trace[p][i].exc) = "yes"
            IN  /\ n <= max_retries + 1
                /\ pc[p] = "returned" =>
                        /\ n >= 1
                        /\ result[p] = trace[p][n]
                        /\ trace[p][n].kind = "return"
                        /\ waits[p] = n - 1
                        /\ \A i \in 1 .. n - 1 :
                              trace[p][i].kind = "raise"
                                /\ ShouldRetry(trace[p][i].exc) = "yes"
                /\ (allRetryable /\ pc[p] = "raised") =>
                        /\ n = max_retries + 1
                        /\ result[p] = trace[p][n]
                        /\ waits[p] = max_retries
                /\ (allRetryable /\ n = max_retries + 1) => pc[p] = "raised"

C3_Witness ==
    /\ max_retries = 2 /\ pc["t1"] = "returned"
    /\ Len(trace["t1"]) = 3 /\ waits["t1"] = 2
    /\ trace["t1"][1].exc.status_code = 503 /\ trace["t1"][2].exc.status_code = 503
    /\ result["t1"] = Return("B")

\* C4: an attempt that fails with an error classified non-retryable is the last
\* one: no backoff wait follows it and the call raises that same error; an
\* operation that answers 403 is called once and the caller gets the API error
\* with status 403.
C4_NonRetryablePropagates ==
    \A p \in Procs : \A i \in 1 .. Len(trace[p]) :
        LET o == trace[p][i] IN
        (o.kind = "raise" /\ ShouldRetry(o.exc) = "no") =>
            /\ i = Len(trace[p])
            /\ pc[p] = "raised"
            /\ result[p] = o
            /\ waits[p] = i - 1
            /\ (o.exc.type = "SPAPIError" /\ "status_code" \in o.exc.keys
                    /\ o.exc.status_code = 403 /\ i = 1)
                 => /\ Len(trace[p]) = 1
                    /\ result[p].exc.type = "SPAPIError"
                    /\ result[p].exc.status_code = 403

C4_Witness ==
    /\ max_retries = 2 /\ pc["t1"] = "raised"
    /\ Len(trace["t1"]) = 1 /\ waits["t1"] = 0
    /\ result["t1"].exc.status_code = 403

C6_NetworkFailureRetried ==
    \A p \in Clients : \A i \in 1 .. Len(wire[p]) :
        wire[p][i].kind = "netfail" =>
            /\ i - 1 < max_retries
                 => (i < Len(wire[p]) \/ pc[p] \in {"backoff", "attempt"})
            /\ (i = Len(wire[p]) /\ pc[p] = "raised") => result[p] = Raise(RequestFailed)

\* the bearer token a client's request carries, once it has passed the credential step
UsesBearer(p) ==
    /\ pc[p] \in {"sign", "attempt", "backoff", "returned"}
    /\ ~(args[p].use_rdt /\ Truthy(args[p].rdt_token))

\* C7 as stated: two invocations that took their bearer token at the same clock
\* reading, starting from an empty cache and with no exchange failing, caused
\* exactly one refresh exchange and both carry the token it returned.
C7_ExactlyOneRefresh ==
    (now = 0 /\ \A p \in Clients : UsesBearer(p))
        => (exchanges = 1 /\ \A p \in Clients : aws_request[p].token = Tok(1))

\* C7, amended: once the first exchange has issued a token, then for as long as
\* that token is more than the 5 minute margin away from its expiry, exactly one
\* refresh exchange has been sent and every invocation that attached a bearer
\* token carries that token.
C7_SingleRefreshWhileFresh ==
    (Len(issued) >= 1 /\ issued[1] # NoExpiry /\ now + BufferTicks < issued[1][2])
        => /\ exchanges = 1
           /\ \A p \in Clients : UsesBearer(p) => aws_request[p].token = Tok(1)

C7_Witness ==
    /\ \A p \in Clients : UsesBearer(p) /\ aws_request[p].token = Tok(1)
    /\ exchanges = 1
    /\ now + BufferTicks < issued[1][2]

\* C8: get_access_token(force_refresh) sends a refresh exchange exactly when no
\* token is cached (none, or one without a recorded expiry), or the clock plus the
\* 5 minute margin has reached the recorded expiry, or force_refresh is set; when
\* it sends none it raises nothing, leaves the cache as it was and returns the
\* cached token.
C8_RefreshIff ==
    lwa_call.name = "get_access_token" =>
        LET cached == lwa_call.pre_token[1] = "tok" /\ lwa_call.pre_expiry[1] = "at"
            stale == cached /\ lwa_call.at + BufferTicks >= lwa_call.pre_expiry[2]
            exchanged == lwa_call.outcome # "no_exchange"
        IN  /\ exchanged <=> (~cached \/ stale \/ lwa_call.force)
            /\ ~exchanged =>
                  /\ lwa_call.exc = NoExc
                  /\ lwa_call.returned = lwa_call.pre_token
                  /\ access_token = lwa_call.pre_token
                  /\ token_expires_at = lwa_call.pre_expiry

C8_Witness ==
    /\ lwa_call.name = "get_access_token" /\ lwa_call.outcome = "no_exchange"
    /\ lwa_call.at = 1 /\ lwa_call.returned = Tok(1)
    /\ lwa_call.pre_expiry = At(12)

\* the outcomes of an exchange with which _refresh_access_token raises
RefreshRaised ==
    lwa_call.outcome \in {"request_exception", "missing_token", "bad_expires_in",
                          "other_exception"}

\* C9: when the refresh exchange of a get_access_token call fails, the call raises
\* and the cached token and the recorded expiry are what they were before the call.
C9_FailedRefreshKeepsCache ==
    (lwa_call.name = "get_access_token" /\ RefreshRaised) =>
        /\ lwa_call.exc # NoExc
        /\ access_token = lwa_call.pre_token
        /\ token_expires_at = lwa_call.pre_expiry

\* what a response's body parses to
C10_Parsed(body) == IF body = "json" THEN "parsed json" ELSE "raw_content"

\* C10 as stated: every response whose status is not 2xx makes the attempt raise.
C10_Non2xxRaises ==
    \A p \in Clients : \A i \in 1 .. Len(wire[p]) :
        (wire[p][i].kind = "response" /\ wire[p][i].status \notin 200 .. 299)
            => trace[p][i].kind = "raise"

\* C10, amended: an attempt whose response has status 400 or above raises an
\* SPAPIError carrying the status code, the parsed response body, the request url
\* and the method, and returns no payload; an attempt whose response has a status
\* below 400 returns the parsed body (the success marker for 204); and a call that
\* ends on a response ends with that attempt's error or payload.
C10_ErrorStatusRaises ==
    \A p \in Clients : \A i \in 1 .. Len(wire[p]) :
        LET w == wire[p][i]
            o == trace[p][i]
        IN  w.kind = "response" =>
              /\ IF w.status >= 400
                 THEN /\ o.kind = "raise" /\ o.value = "none"
                      /\ o.exc.type = "SPAPIError"
                      /\ o.exc.keys = {"status_code", "response", "url", "method"}
                      /\ o.exc.status_code = w.status
                      /\ o.exc.response = C10_Parsed(w.body)
                      /\ o.exc.url = (IF args[p].params = <<>> THEN "/path"
                                      ELSE "/path?k=v")
                      /\ o.exc.method \in {"GET", "POST"}
                 ELSE /\ o.kind = "return"
                      /\ o.value = (IF w.status = 204 THEN "success"
                                    ELSE C10_Parsed(w.body))
              /\ (i = Len(wire[p]) /\ pc[p] \in {"returned", "raised"}) => result[p] = o

C10_Witness ==
    /\ pc["t1"] = "raised" /\ result["t1"].exc.status_code = 403
    /\ result["t1"].exc.method = "POST"
    /\ pc["t2"] = "returned" /\ wire["t2"] = <<Resp(401, "text"), Resp(302, "text")>>
    /\ result["t2"].value = "raw_content"

\* C11: a request call that has made an attempt ends with the outcome of its last
\* attempt: it returns that attempt's parsed payload, or it raises that attempt's
\* SPAPIError, which carries the status, url, method and body of the response or
\* the transport failure; a call never returns without a successful attempt.
C11_OutcomeSurfaced ==
    \A p \in Clients :
        LET n == Len(trace[p]) IN
        /\ pc[p] = "returned" => n >= 1 /\ trace[p][n].kind = "return"
        /\ (pc[p] \in {"returned", "raised"} /\ n >= 1) =>
              /\ result[p] = trace[p][n]
              /\ result[p].kind = "raise" =>
                    /\ result[p].exc.type = "SPAPIError"
                    /\ \/ {"status_code", "response", "url", "method"}
                              \subseteq result[p].exc.keys
                       \/ "original_error" \in result[p].exc.keys

\* C12: when an attempt of a bearer-token request call got a 401 response, the
\* next attempt of that call carries the token get_access_token returns at the
\* time of that attempt: the cached token when it is not expired (an expired one
\* would be replaced by a newly issued token).
C12_RetryStep ==
    \A p \in Clients :
        LET n == Len(wire[p]) IN
        (/\ op[p] = "request" /\ UsesBearer(p)
         /\ Len(wire'[p]) = n + 1 /\ n >= 1
         /\ wire[p][n].kind = "response" /\ wire[p][n].status = 401)
            => /\ ~IsTokenExpired(access_token, token_expires_at, now)
               /\ aws_request[p].token = access_token

C12_RetryCarriesCurrentToken == [][C12_RetryStep]_vars

\* C13 as stated: whenever use_rdt is set, the credential step puts the supplied
\* rdt_token in the request and leaves the LWA token manager alone.
C13_RdtStepAsStated ==
    \A p \in Clients :
        (pc[p] = "auth" /\ pc'[p] # "auth" /\ args[p].use_rdt)
            => /\ aws_request'[p].token = args[p].rdt_token
               /\ UNCHANGED lwavars

C13_RestrictedBypassesBearer == [][C13_RdtStepAsStated]_vars

\* C13, amended: when use_rdt is set and a non-empty rdt_token is supplied, the
\* credential step puts that token in the request unchanged, calls no
\* get_access_token and sends no refresh exchange; when use_rdt is set without a
\* token, the step falls back to get_access_token and the request carries the
\* cached bearer token (or the call raises).
C13_RdtStep ==
    \A p \in Clients :
        (pc[p] = "auth" /\ pc'[p] # "auth" /\ args[p].use_rdt) =>
            IF Truthy(args[p].rdt_token)
            THEN /\ aws_request'[p].token = args[p].rdt_token
                 /\ pc'[p] = "sign"
                 /\ UNCHANGED lwavars
            ELSE /\ lwa_call'.name = "get_access_token" /\ lwa_call'.at = now
                 /\ \/ pc'[p] = "raised"
                    \/ aws_request'[p].token = access_token'

C13_SuppliedRdtBypassesBearer == [][C13_RdtStep]_vars

C13_Witness ==
    /\ pc["t1"] = "sign" /\ args["t1"].use_rdt
    /\ aws_request["t1"].token = Rdt
    /\ exchanges = 0 /\ access_token = NoToken /\ lwa_call = NoCall

\* C14: on a configured bucket that started full, an acquisition beyond the burst
\* is granted no earlier than 1/rate after the bucket was filled; an acquirer that
\* finds the burst used up with no time elapsed is not granted but suspended, the
\* suspension it asks for lasts at least (1 - tokens)/rate, which is 1/rate on a
\* drained bucket, and it does not run again before that time is over.
C14_GrantAfterRefill ==
    \A b \in DOMAIN RATE_LIMITS :
        granted[b] > RATE_LIMITS[b].burst =>
            (last_request_times[b] - bucket_t0[b]) * RATE_LIMITS[b].rate >= TokenScale

C14_Step ==
    \A p \in Procs :
        LET b == BucketName(endpoint[p]) IN
        /\ (pc[p] = "acquire" /\ pc'[p] = "rl_sleep") =>
              (wake'[p] - now) * buckets'[b].refill_rate >= TokenScale - buckets'[b].tokens
        /\ (pc[p] = "rl_sleep" /\ pc'[p] # "rl_sleep") => now >= wake[p]
        /\ (/\ pc[p] = "acquire" /\ pc'[p] # "acquire"
            /\ b \in DOMAIN RATE_LIMITS
            /\ granted[b] = RATE_LIMITS[b].burst /\ now = bucket_t0[b]) =>
              /\ pc'[p] = "rl_sleep"
              /\ granted'[b] = granted[b]
              /\ (wake'[p] - now) * RATE_LIMITS[b].rate >= TokenScale

C14_SuspendsForRefill == [](C14_GrantAfterRefill) /\ [][C14_Step]_vars

C14_Witness ==
    /\ now = 0 /\ granted["orders"] = OrdersBurst
    /\ \E p \in Procs :
          /\ pc[p] = "rl_sleep" /\ endpoint[p] = "orders"
          /\ wake[p] * RATE_LIMITS["orders"].rate >= TokenScale

\* C15: under an advancing clock and fair scheduling every acquire call, on any
\* endpoint name and with any of the concurrent acquirers, eventually returns
\* having been granted its token, and it never raises.  (The clock of the model
\* stops at FairMaxTime, so the property speaks of the calls in progress while
\* one longest wait per acquirer still fits before it.)
C15_AcquireReturns ==
    /\ \A p \in Procs :
          (/\ op[p] = "acquire" /\ pc[p] # "done"
           /\ now + Cardinality(Procs) * WorstWait <= FairMaxTime)
              ~> (pc[p] = "done" /\ granted[BucketName(endpoint[p])] >= 1)
    /\ [](\A p \in Procs : op[p] = "acquire" => pc[p] \in {"acquire", "rl_sleep", "done"})

C15_Witness ==
    /\ \E p \in Procs : pc[p] = "done" /\ endpoint[p] = "orders"
    /\ granted["orders"] = OrdersBurst + 1
    /\ last_request_times["orders"] >= WorstWait
    /\ \A p \in Procs : pc[p] = "done"

\* the positions at which a request call does network I/O: the refresh exchange
\* of get_access_token (lwa_auth.py line 58) in the credential step and the
\* transport call (http_client.py line 106) in an attempt
InNetworkIO(p) ==
    /\ op[p] = "request" /\ running = p
    /\ \/ pc[p] = "attempt"
       \/ /\ pc[p] = "auth" /\ ~UseRdt(args[p])
          /\ NeedsRefresh(access_token, token_expires_at, FALSE, now)

\* C16: while one request call waits, in the rate limiter's sleep, in the retry
\* backoff or on network I/O, another call can take its step: a caller can start
\* a request, and a call whose sleep is over is run again.
C16_WaitsDoNotBlock ==
    \A p \in Clients : \A q \in Clients \ {p} :
        (pc[p] \in {"rl_sleep", "backoff"} \/ InNetworkIO(p)) =>
            /\ pc[q] = "idle" => ENABLED StartRequest(q, BearerCall)
            /\ (pc[q] = "rl_sleep" /\ now >= wake[q]) => ENABLED AcquireWake(q)
            /\ (pc[q] = "backoff" /\ now >= wake[q]) => ENABLED BackoffWake(q)

\* C17: a get_credentials or sign_request call that finds an identity cached
\* returns that identity, makes no assume_role call and leaves the cache alone,
\* however much time has passed; the cached identity changes only when a call
\* that found the cache empty stores a new one or refresh_credentials clears it;
\* a call whose role assumption fails raises and leaves the cache empty, and the
\* next call on the empty cache assumes the role again; every assume_role call of
\* get_credentials uses the session name sp-api-mcp-session.
C17_LastCall ==
    LET c == aws_call IN
    /\ c.name \in {"get_credentials", "sign_request"} =>
          /\ credentials = (IF c.exc = NoExc THEN c.returned ELSE NoCredentials)
          /\ IF c.pre # NoCredentials
             THEN c.returned = c.pre /\ c.exc = NoExc /\ c.outcome = "not_called"
             ELSE /\ aws_role_arn <=> c.outcome \in {"ok", "error"}
                  /\ c.outcome = "error" <=> c.exc # NoExc
                  /\ c.exc = NoExc => c.returned = Cred(identities)
    /\ \A i \in 1 .. Len(sts_calls) :
          sts_calls[i].by = "get_credentials" => sts_calls[i].session = "sp-api-mcp-session"
    /\ ~aws_role_arn =>
          \A i \in 1 .. Len(sts_calls) : sts_calls[i].by # "get_credentials"

C17_Step ==
    /\ credentials # NoCredentials =>
          \/ credentials' = credentials /\ identities' = identities
                /\ (\A i \in 1 .. Len(sts_calls') :
                        i > Len(sts_calls) => sts_calls'[i].by # "get_credentials")
          \/ credentials' = NoCredentials /\ aws_call'.name = "refresh_credentials"
    /\ (credentials = NoCredentials /\ credentials' # NoCredentials) =>
          /\ credentials' = Cred(identities + 1) /\ identities' = identities + 1
          /\ aws_call'.name \in {"get_credentials", "sign_request"}

C17_IdentityCachedUntilCleared == [](C17_LastCall) /\ [][C17_Step]_vars

C17_Witness ==
    /\ aws_role_arn /\ now = MaxTime
    /\ Len(sts_calls) = 2 /\ sts_calls[1].by = "get_credentials"
    /\ sts_calls[2].by = "get_credentials"
    /\ identities = 1 /\ credentials = Cred(1)
    /\ aws_call.name = "sign_request" /\ aws_call.pre = Cred(1)
    /\ aws_call.returned = Cred(1)

\* C18: no bucket exists under an unrecognized endpoint name; the fallback bucket
\* named default has burst 10 and refills 1 token per second (30 per tick); the
\* acquirers of every unrecognized name draw from it and those of a configured
\* name from their own bucket; the first such call creates it full and takes
\* its token, every later one takes its token from what the bucket holds after
\* the refill, and a call on an unrecognized name leaves the configured buckets
\* as they are.
C18_OneFallbackBucket ==
    /\ DOMAIN buckets \subseteq DOMAIN RATE_LIMITS \cup {"default"}
    /\ "default" \in DOMAIN buckets =>
          /\ buckets["default"].max_tokens = 10 * TokenScale
          /\ buckets["default"].refill_rate = 30 * TokenScale
          /\ granted["default"] >= 1
    /\ "default" \notin DOMAIN buckets => granted["default"] = 0
    /\ granted["default"] =
          Cardinality({p \in Procs : pc[p] = "done" /\ endpoint[p] \notin DOMAIN RATE_LIMITS})
    /\ \A b \in DOMAIN RATE_LIMITS :
          granted[b] = Cardinality({p \in Procs : pc[p] = "done" /\ endpoint[p] = b})

C18_Step ==
    /\ ("default" \notin DOMAIN buckets /\ "default" \in DOMAIN buckets') =>
          /\ buckets'["default"].tokens = 10 * TokenScale - TokenScale
          /\ buckets'["default"].last_refill = now
          /\ \E p \in Procs : /\ endpoint[p] \notin DOMAIN RATE_LIMITS
                              /\ pc[p] = "acquire" /\ pc'[p] = "done"
    /\ "default" \in DOMAIN buckets =>
          /\ "default" \in DOMAIN buckets'
          /\ granted'["default"] = granted["default"] + 1 =>
                buckets'["default"].tokens =
                    Min(10 * TokenScale,
                        buckets["default"].tokens
                          + (now - buckets["default"].last_refill) * 30 * TokenScale)
                      - TokenScale
          /\ granted'["default"] = granted["default"] =>
                buckets'["default"] = buckets["default"]
    /\ \A p \in Procs :
          (pc[p] = "acquire" /\ pc'[p] # "acquire" /\ endpoint[p] \notin DOMAIN RATE_LIMITS)
              => \A b \in DOMAIN RATE_LIMITS : buckets'[b] = buckets[b]

C18_UnknownEndpointsShareDefault == [](C18_OneFallbackBucket) /\ [][C18_Step]_vars

C18_Witness ==
    /\ \E p, q \in Procs :
          /\ pc[p] = "done" /\ endpoint[p] = "shipping"
          /\ pc[q] = "done" /\ endpoint[q] = "messaging"
    /\ granted["default"] = 2
    /\ buckets["default"].tokens = 8 * TokenScale
    /\ buckets["default"].last_refill = bucket_t0["default"]

\* C19 (as stated): a get_status call leaves every bucket's stored tokens and
\* last-refill time, the grants and the last-request times as they were, and the
\* count it reports for a bucket is exactly min(max, stored + elapsed x rate).
C19_StatusStepAsStated ==
    status_report' # status_report =>
        /\ buckets' = buckets /\ granted' = granted
        /\ last_request_times' = last_request_times
        /\ DOMAIN status_report' = DOMAIN buckets
        /\ \A e \in DOMAIN buckets :
              status_report'[e].current_tokens * 10
                  = Min(buckets[e].max_tokens,
                        buckets[e].tokens
                          + (now - buckets[e].last_refill) * buckets[e].refill_rate)

C19_StatusReportsExactTokens == [][C19_StatusStepAsStated]_vars

\* C19: a get_status call leaves every bucket's stored tokens and last-refill
\* time, the grants and the last-request times as they were, and the count it
\* reports for a bucket is min(max, stored + elapsed x rate) rounded to two
\* decimal places: a multiple of 0.01 at most 0.005 away from it.
C19_StatusStep ==
    status_report' # status_report =>
        /\ buckets' = buckets /\ granted' = granted
        /\ last_request_times' = last_request_times
        /\ DOMAIN status_report' = DOMAIN buckets
        /\ \A e \in DOMAIN buckets :
              LET exact == Min(buckets[e].max_tokens,
                               buckets[e].tokens
                                 + (now - buckets[e].last_refill) * buckets[e].refill_rate)
                  shown == status_report'[e].current_tokens * 10
              IN  /\ shown - exact <= 5 /\ exact - shown <= 5
                  /\ status_report'[e].max_tokens = buckets[e].max_tokens
                  /\ status_report'[e].refill_rate = buckets[e].refill_rate

C19_StatusReportsRoundedTokens == [][C19_StatusStep]_vars

C19_Witness ==
    /\ "orders" \in DOMAIN status_report
    /\ buckets["orders"].tokens = (OrdersBurst - 1) * TokenScale
    /\ now = buckets["orders"].last_refill + 1
    /\ status_report["orders"].current_tokens * 10 + 1
          = buckets["orders"].tokens + RATE_LIMITS["orders"].rate
    /\ granted["orders"] = 1

\* C20: when the exchange of a get_access_token call fails (the POST raises,
\* whatever the exception, or the response has no access_token field), the call
\* raises the manager's own Exception: with the message 'LWA token refresh failed'
\* when the POST failed and a token-refresh message when the field is missing;
\* no exception of another kind comes out of the call.
C20_RefreshFailsAsAuthError ==
    lwa_call.name = "get_access_token" =>
        /\ lwa_call.outcome \in {"request_exception", "other_exception"} =>
              lwa_call.exc = Builtin("Exception", "LWA token refresh failed")
        /\ lwa_call.outcome = "missing_token" =>
              /\ lwa_call.exc # NoExc
              /\ lwa_call.exc.type = "Exception"
              /\ lwa_call.exc.message \in {"LWA token refresh failed",
                                           "Invalid LWA token response"}
        /\ lwa_call.exc # NoExc => lwa_call.exc.type = "Exception"

\* C21: whatever error a call ended with (an API error carrying a status, a
\* wrapped transport failure carrying none, or any other exception),
\* format_error returns a dictionary with a type and a message and does not
\* raise, and the guidance of an API error is the one of its status code.
C21_FormatterTotal ==
    \A p \in Procs :
        formatted[p] # NoFormat =>
            LET e == result[p].exc IN
            /\ formatted[p].kind = "return"
            /\ formatted[p].type = e.type
            /\ formatted[p].message = e.message
            /\ (e.type = "SPAPIError" /\ "status_code" \in e.keys) =>
                  /\ e.status_code = 401 => formatted[p].guidance = "check credentials"
                  /\ e.status_code = 403 => formatted[p].guidance = "check permissions"
                  /\ e.status_code = 429 =>
                        formatted[p].guidance = "rate limit, retried automatically"
                  /\ e.status_code >= 500 =>
                        formatted[p].guidance = "server error, retried automatically"
                  /\ e.status_code = 400 => formatted[p].guidance = "bad request"

\* C22: in every call of request the rate-limit acquisition is granted first,
\* then the credential header is set, then the request is signed, and only then
\* is a transport attempt made; a call that raised before its request was signed
\* (token retrieval or signing failed) made no transport attempt.
C22_Stages ==
    \A p \in Procs :
        op[p] = "request" =>
            /\ pc[p] \in {"acquire", "rl_sleep"} =>
                  aws_request[p] = NoRequest /\ wire[p] = <<>>
            /\ pc[p] = "auth" =>
                  /\ granted[BucketName(endpoint[p])] >= 1
                  /\ aws_request[p] = NoRequest /\ wire[p] = <<>>
            /\ pc[p] = "sign" =>
                  /\ Truthy(aws_request[p].token)
                  /\ aws_request[p].signed = "none" /\ wire[p] = <<>>
            /\ wire[p] # <<>> =>
                  /\ granted[BucketName(endpoint[p])] >= 1
                  /\ Truthy(aws_request[p].token)
                  /\ aws_request[p].signed # "none"
            /\ (pc[p] = "raised" /\ aws_request[p].signed = "none") => wire[p] = <<>>

C22_Step ==
    \A p \in Procs :
        op[p] = "request" =>
            /\ (pc[p] = "acquire" /\ pc'[p] = "auth") =>
                  granted'[BucketName(endpoint[p])] = granted[BucketName(endpoint[p])] + 1
            /\ aws_request'[p].token # aws_request[p].token =>
                  pc[p] = "auth" /\ pc'[p] = "sign"
            /\ aws_request'[p].signed # aws_request[p].signed =>
                  /\ pc[p] = "sign" /\ pc'[p] = "attempt"
                  /\ aws_request'[p].token = aws_request[p].token
            /\ wire'[p] # wire[p] =>
                  /\ pc[p] = "attempt"
                  /\ aws_request'[p] = aws_request[p]

C22_PipelineOrder == [](C22_Stages) /\ [][C22_Step]_vars

C22_Witness ==
    /\ pc["t1"] = "raised" /\ op["t1"] = "request"
    /\ Truthy(aws_request["t1"].token) /\ aws_request["t1"].signed = "none"
    /\ wire["t1"] = <<>>
    /\ pc["t2"] = "returned" /\ Len(wire["t2"]) = 2
    /\ aws_request["t2"].signed # "none"

\* C23 (as stated): for every attempt index k the loop can reach, the backoff
\* computed after the failure of attempt k is at least 2^k * 0.5 s, at most
\* min(60, 2^k * 1.5) s, and never more than 60 s (delays in half seconds).
C23_BackoffInStatedRange ==
    backoff_call # NoBackoff =>
        LET k == backoff_call.attempt
            d == backoff_call.delay
        IN  /\ 2^k <= d
            /\ d <= (IF 3 * 2^k <= 120 THEN 3 * 2^k ELSE 120)
            /\ d <= 120

\* C23: for every attempt index k the loop can reach, the backoff computed after
\* the failure of attempt k is at least min(60, 2^k * 0.5) s, at most
\* min(60, 2^k * 1.5) s, and never more than 60 s (delays in half seconds).
C23_BackoffInCappedRange ==
    backoff_call # NoBackoff =>
        LET k == backoff_call.attempt
            d == backoff_call.delay
        IN  /\ (IF 2^k <= 120 THEN 2^k ELSE 120) <= d
            /\ d <= (IF 3 * 2^k <= 120 THEN 3 * 2^k ELSE 120)
            /\ d <= 120

C23_Witness ==
    /\ backoff_call.attempt = 7 /\ backoff_call.jitter = 1
    /\ backoff_call.delay = 120
    /\ max_retries = 8

\* the query string of each params argument the calls are made with
C24_Suffix(params) ==
    CASE params = <<>> -> ""
      [] params = <<<<"k", "v">>>> -> "?k=v"
      [] params = <<<<"n", "null">>>> -> "?"
      [] params = <<<<"k", "v">>, <<"n", "null">>, <<"m", "w">>>> -> "?k=v&m=w"

\* C24: what is signed is the url without the query string; the query string,
\* without the parameters whose value is null, is appended in the step that
\* signs, once per call, and no attempt changes the url afterwards; so two calls
\* that differ only in their params have the same signed content.
C24_SignedThenAppended ==
    /\ \A p \in Clients :
          aws_request[p].signed # "none" =>
              /\ aws_request[p].signed = "/path"
              /\ aws_request[p].url = "/path" \o C24_Suffix(args[p].params)
    /\ \A p, q \in Clients :
          (/\ aws_request[p].signed # "none" /\ aws_request[q].signed # "none"
           /\ [args[p] EXCEPT !.params = <<>>] = [args[q] EXCEPT !.params = <<>>])
              => aws_request[p].signed = aws_request[q].signed

C24_Step ==
    \A p \in Clients :
        aws_request'[p].url # aws_request[p].url =>
            \/ pc[p] = "auth" /\ aws_request'[p].url = "/path"
            \/ /\ pc[p] = "sign" /\ pc'[p] = "attempt"
               /\ aws_request'[p].signed = aws_request[p].url
               /\ Len(wire[p]) = 0

C24_SignatureIgnoresParams == [](C24_SignedThenAppended) /\ [][C24_Step]_vars

C24_Witness ==
    /\ args["t1"].params = <<<<"k", "v">>, <<"n", "null">>, <<"m", "w">>>>
    /\ aws_request["t1"].url = "/path?k=v&m=w"
    /\ aws_request["t2"].url = "/path?k=v"
    /\ aws_request["t1"].signed = aws_request["t2"].signed
    /\ Len(wire["t1"]) = 2 /\ Len(wire["t2"]) = 1

\* C25: in every state reached by get_access_token, forced refresh,
\* validate_credentials and get_client_credentials_token calls, the recorded
\* expiry is the expiry of the cached token (the one its exchange issued); the
\* last call changed the cached token or the expiry only if its exchange
\* succeeded, and then both; and a client-credentials call left both as they were.
C25_CacheChangedOnlyByRefresh ==
    /\ Truthy(access_token) =>
          /\ access_token[2] \in 1 .. Len(issued)
          /\ token_expires_at = issued[access_token[2]]
    /\ lwa_call.name # "none" =>
          /\ (access_token # lwa_call.pre_token \/ token_expires_at # lwa_call.pre_expiry) =>
                /\ lwa_call.outcome \in {"ok", "ok_no_expires_in", "empty_token"}
                /\ access_token # lwa_call.pre_token
                /\ token_expires_at # lwa_call.pre_expiry
          /\ lwa_call.name = "get_client_credentials_token" =>
                /\ access_token = lwa_call.pre_token
                /\ token_expires_at = lwa_call.pre_expiry

\* the bucket a call on endpoint e draws from
C26_Bucket(e) == IF e \in {"orders", "inventory"} THEN e ELSE "default"

\* C26: every call of request that got past the rate limiter took exactly one
\* token from the bucket of its endpoint group, before any transport attempt:
\* the grants of a bucket number the calls on it that have passed acquire,
\* whether they later returned, raised or retried; a grant leaves the bucket
\* at its refilled count minus one token; and no later step of the call
\* (token retrieval, signing, attempts, backoff) touches a bucket or a grant.
C26_OneGrantPerCall ==
    /\ \A b \in {"orders", "inventory", "default"} :
          granted[b] = Cardinality({p \in Clients :
                          /\ op[p] = "request" /\ C26_Bucket(endpoint[p]) = b
                          /\ pc[p] \notin {"idle", "acquire", "rl_sleep"}})
    /\ \A p \in Clients :
          wire[p] # <<>> => pc[p] \notin {"idle", "acquire", "rl_sleep"}

C26_Step ==
    /\ \A p \in Clients :
          (pc[p] \in {"auth", "sign", "attempt", "backoff", "returned", "raised"}
           /\ (pc'[p] # pc[p] \/ wire'[p] # wire[p]))
              => buckets' = buckets /\ granted' = granted
    /\ \A b \in {"orders", "inventory", "default"} :
          granted'[b] # granted[b] =>
              /\ granted'[b] = granted[b] + 1
              /\ buckets'[b].tokens =
                    (IF b \in DOMAIN buckets
                     THEN Min(buckets[b].max_tokens,
                              buckets[b].tokens
                                + (now - buckets[b].last_refill) * buckets[b].refill_rate)
                     ELSE 10 * TokenScale) - TokenScale

C26_OneTokenPerCall == [](C26_OneGrantPerCall) /\ [][C26_Step]_vars

C26_Witness ==
    /\ pc["t1"] = "raised" /\ Len(wire["t1"]) = 2 /\ waits["t1"] = 1
    /\ endpoint["t1"] = "inventory" /\ pc["t2"] = "idle"
    /\ granted["inventory"] = 1
    /\ buckets["inventory"].tokens = 0 /\ buckets["inventory"].last_refill = now

\* the errors execute_with_retry retries
C27_Retryable(e) ==
    \/ e.type = "SPAPIError" /\ "status_code" \in e.keys
         /\ e.status_code \in {401, 429, 500, 502, 503, 504}
    \/ e.type \in {"ConnectionError", "TimeoutError"}

\* C27: execute_with_retry sleeps only between two attempts: a run that has
\* ended after one or more attempts slept once less than it made attempts; while
\* it sleeps or is about to make an attempt it has slept once per attempt made;
\* a sleep starts only in the step of an attempt that failed with a retryable
\* error and was not the last allowed one; and the step that ends the run (a
\* success, a non-retryable failure, the failure of the last attempt) starts none.
C27_WaitsCounted ==
    \A p \in Procs :
        op[p] = "retry" =>
            /\ (pc[p] \in {"returned", "raised"} /\ Len(trace[p]) >= 1) =>
                  waits[p] = Len(trace[p]) - 1
            /\ pc[p] \in {"attempt", "backoff"} => waits[p] = Len(trace[p])
            /\ pc[p] = "backoff" =>
                  /\ Len(trace[p]) >= 1 /\ Len(trace[p]) <= max_retries
                  /\ trace[p][Len(trace[p])].kind = "raise"
                  /\ C27_Retryable(trace[p][Len(trace[p])].exc)

C27_Step ==
    \A p \in Procs :
        op[p] = "retry" =>
            /\ waits'[p] # waits[p] =>
                  /\ waits'[p] = waits[p] + 1
                  /\ pc[p] = "attempt" /\ pc'[p] = "backoff"
                  /\ Len(trace'[p]) = Len(trace[p]) + 1
                  /\ Len(trace[p]) < max_retries
            /\ (pc'[p] \in {"returned", "raised"} /\ pc[p] # pc'[p]) =>
                  waits'[p] = waits[p]

C28_AtLeastOneAttempt ==
    \A p \in Procs :
        (op[p] = "retry" /\ pc[p] \in {"returned", "raised"}) =>
            /\ Len(trace[p]) >= 1
            /\ result[p] = trace[p][Len(trace[p])]
            /\ max_retries = 0 => Len(trace[p]) = 1

\* C29: also when the clock reading goes back between two refills, every bucket
\* holds between 0 and max_tokens tokens after every acquire, and every count
\* get_status reports lies between 0 and max_tokens.
C29_RangeUnderClockSkew ==
    /\ \A b \in DOMAIN buckets :
          0 <= buckets[b].tokens /\ buckets[b].tokens <= buckets[b].max_tokens
    /\ \A e \in DOMAIN status_report :
          /\ 0 <= status_report[e].current_tokens
          /\ status_report[e].current_tokens * 10 <= status_report[e].max_tokens

\* the bucket of an endpoint group
C30_Bucket(e) == IF e \in {"orders", "inventory"} THEN e ELSE "default"

\* C30: a step changes a bucket, or a last-request time, only if it is a step of
\* acquire on that bucket's endpoint group; every other bucket keeps its tokens
\* and last-refill time; and an acquirer goes to sleep only when its own bucket,
\* refilled, holds less than one token, for a time computed from that bucket
\* alone, whatever the other buckets hold.
C30_Step ==
    /\ \A b \in DOMAIN buckets :
          buckets'[b] # buckets[b] =>
              \E p \in Procs : /\ pc[p] = "acquire" /\ pc'[p] # "acquire"
                               /\ C30_Bucket(endpoint[p]) = b
    /\ \A b \in DOMAIN last_request_times' :
          (b \notin DOMAIN last_request_times
              \/ last_request_times'[b] # last_request_times[b]) =>
              \E p \in Procs : /\ pc[p] = "acquire" /\ pc'[p] = "done"
                               /\ C30_Bucket(endpoint[p]) = b
    /\ \A p \in Procs :
          (pc[p] = "acquire" /\ pc'[p] = "rl_sleep"
           /\ endpoint[p] \in {"orders", "inventory"}) =>
              LET b == buckets[endpoint[p]]
                  t == Min(b.max_tokens, b.tokens + (now - b.last_refill) * b.refill_rate)
              IN  /\ t < TokenScale
                  /\ wake'[p] = now + ((TokenScale - t + b.refill_rate - 1)
                                          \div b.refill_rate) + Buffer
    /\ \A p \in Procs :
          (pc[p] = "acquire" /\ endpoint[p] \in {"orders", "inventory"}
           /\ pc'[p] # pc[p]) =>
              LET b == buckets[endpoint[p]]
                  t == Min(b.max_tokens, b.tokens + (now - b.last_refill) * b.refill_rate)
              IN  t >= TokenScale => pc'[p] = "done"

C30_BucketsIndependent == [][C30_Step]_vars

C30_Witness ==
    /\ pc["t1"] = "rl_sleep" /\ endpoint["t1"] = "inventory" /\ wake["t1"] > now
    /\ granted["inventory"] = 1 /\ buckets["inventory"].tokens = 0
    /\ pc["t2"] = "done" /\ endpoint["t2"] = "orders"
    /\ "orders" \in DOMAIN last_request_times /\ last_request_times["orders"] = now
    /\ buckets["orders"].tokens = (OrdersBurst - 1) * TokenScale
    /\ buckets["inventory"].last_refill = now

====
